---- MODULE Spec2Model ----
(***************************************************************************)
(* Model of izumigum/wb_test: the Go listing service (getAllCities,        *)
(* getAllHotels over a PostgreSQL store) and the React client HotelSearch  *)
(* (loadAllData, filterData and the search handlers).                      *)
(*                                                                         *)
(* Text is modelled as a sequence of character codes (ASCII), so that      *)
(* case folding, trimming, substring search and ordering are computed.     *)
(***************************************************************************)
EXTENDS Integers, Sequences, FiniteSets, TLC

VARIABLES
    citiesTable,    \* store: rows of table "cities"
    hotelsTable,    \* store: rows of table "hotels"
    served,         \* server: per request, what the store did and what c.JSON emitted
    active,         \* server: the requests whose handler is iterating over its rows
    cities,         \* client: useState cities
    hotels,         \* client: useState hotels
    filteredData,   \* client: useState filteredData
    loading,        \* client: useState loading
    error,          \* client: useState error
    searchParams,   \* client: useState searchParams
    pc,             \* client: position of loadAllData
    citiesRes,      \* client: state of fetch(`${API_URL}/cities`)
    hotelsRes,      \* client: state of fetch(`${API_URL}/hotels`)
    effectPending   \* client: the filterData effect is scheduled and has not run

storeVars == <<citiesTable, hotelsTable>>
serverVars == <<served, active>>
clientVars == <<cities, hotels, filteredData, loading, error, searchParams, pc,
                citiesRes, hotelsRes, effectPending>>
vars == <<citiesTable, hotelsTable, served, active, cities, hotels, filteredData, loading,
          error, searchParams, pc, citiesRes, hotelsRes, effectPending>>

----------------------------------------------------------------------------
(* Bounds of the model *)

\* at most this many rows in table "cities"
MaxCities == 2
\* at most this many rows in table "hotels"
MaxHotels == 3
\* number of requests the listing service serves in SpecServer
MaxRequests == 2

----------------------------------------------------------------------------
(* Text *)

\* "" as a sequence of character codes
Empty == <<>>

\* whether a precedes b in byte-wise lexicographic order, or equals it
RECURSIVE LexLeq(_, _)
LexLeq(a, b) ==
    IF a = <<>> THEN TRUE
    ELSE IF b = <<>> THEN FALSE
    ELSE IF Head(a) < Head(b) THEN TRUE
    ELSE IF Head(a) > Head(b) THEN FALSE
    ELSE LexLeq(Tail(a), Tail(b))

\* decimal digits of a natural number, as text
RECURSIVE Digits(_)
Digits(n) == IF n < 10 THEN <<48 + n>> ELSE Digits(n \div 10) \o <<48 + (n % 10)>>

\* whether the natural number written by the digits a is at most that written
\* by b (no leading zeros)
DecLeq(a, b) == Len(a) < Len(b) \/ (Len(a) = Len(b) /\ LexLeq(a, b))

\* the digits of n + 1, for the digits of n
RECURSIVE Increment(_)
Increment(s) ==
    IF s = <<>> THEN <<49>>
    ELSE IF s[Len(s)] = 57 THEN Increment(SubSeq(s, 1, Len(s) - 1)) \o <<48>>
    ELSE SubSeq(s, 1, Len(s) - 1) \o <<s[Len(s)] + 1>>

\* s without its trailing "0" characters
RECURSIVE StripZeros(_)
StripZeros(s) ==
    IF s # <<>> /\ s[Len(s)] = 48 THEN StripZeros(SubSeq(s, 1, Len(s) - 1)) ELSE s

----------------------------------------------------------------------------
(* The store: PostgreSQL tables cities(id, name) and                        *)
(* hotels(id, name, city -> cities.id, capacity, price).  A column that may *)
(* be NULL carries a flag; its value is then irrelevant.                    *)

CityRow(id, name, nameNull) == [id |-> id, name |-> name, nameNull |-> nameNull]

HotelRow(id, name, city, cityNull, capacity, price) ==
    [id |-> id, name |-> name, city |-> city, cityNull |-> cityNull,
     capacity |-> capacity, price |-> price]

\* rows the cities table is drawn from: Paris, Lyon, paris, and a row without name
CityRows ==
    { CityRow(1, <<80, 97, 114, 105, 115>>, FALSE),
      CityRow(2, <<76, 121, 111, 110>>, FALSE),
      CityRow(3, <<112, 97, 114, 105, 115>>, FALSE),
      CityRow(4, Empty, TRUE) }

\* rows the hotels table is drawn from:
\*   Grand (city 1, capacity 50, price 120.00), Inn (city NULL, 10, 40.50),
\*   Apart (city 9, in no cities row, capacity 0, price 0.00),
\*   grand (city 4, capacity 100, price 9007199254740993.00)
HotelRows ==
    { HotelRow(1, <<71, 114, 97, 110, 100>>, 1, FALSE, 50, <<49, 50, 48, 46, 48, 48>>),
      HotelRow(2, <<73, 110, 110>>, 0, TRUE, 10, <<52, 48, 46, 53, 48>>),
      HotelRow(3, <<65, 112, 97, 114, 116>>, 9, FALSE, 0, <<48, 46, 48, 48>>),
      HotelRow(4, <<103, 114, 97, 110, 100>>, 4, FALSE, 100,
               <<57, 48, 48, 55, 49, 57, 57, 50, 53, 52, 55, 52, 48, 57, 57, 51, 46, 48, 48>>) }

\* messages of the errors the store reports
StoreErrors == {"pq: connection refused"}

\* all orders of the rows of a set
Orders(S) ==
    { p \in [1..Cardinality(S) -> S] : \A i, j \in 1..Cardinality(S) : p[i] = p[j] => i = j }

\* ORDER BY name on cities rows: ascending, NULL names last
CityOrdered(a, b) ==
    IF a.nameNull THEN b.nameNull ELSE (b.nameNull \/ LexLeq(a.name, b.name))

\* ORDER BY h.name on hotels rows
HotelOrdered(a, b) == LexLeq(a.name, b.name)

\* mutant of SelectCities: the query without its ORDER BY clause
SelectCitiesUnordered == Orders(citiesTable)

\* SELECT id, name FROM cities ORDER BY name: the result sets the store may return
SelectCities ==
    { p \in Orders(citiesTable) :
        \A i, j \in 1..Len(p) : i < j => CityOrdered(p[i], p[j]) }

\* mutant of JoinedCityName: the name of some city, whatever the hotel refers to
JoinedCityNameAny(h) ==
    IF citiesTable = {} THEN Empty
    ELSE LET c == CHOOSE c \in citiesTable : TRUE
         IN  IF c.nameNull THEN Empty ELSE c.name

\* COALESCE(c.name, '') of the LEFT JOIN cities c ON h.city = c.id, for hotels row h
JoinedCityName(h) ==
    LET match == { c \in citiesTable : ~h.cityNull /\ c.id = h.city }
    IN  IF match = {} THEN Empty
        ELSE LET c == CHOOSE c \in match : TRUE
             IN  IF c.nameNull THEN Empty ELSE c.name

\* one row of the hotels query: h.id, h.name, h.city, COALESCE(c.name, ''),
\* h.capacity, h.price::numeric
JoinedRow(h) ==
    [id |-> h.id, name |-> h.name, city |-> h.city, cityNull |-> h.cityNull,
     cname |-> JoinedCityName(h), capacity |-> h.capacity, price |-> h.price]

\* the hotels query: the result sets the store may return
SelectHotels ==
    { [i \in 1..Len(p) |-> JoinedRow(p[i])] : p \in
        { q \in Orders(hotelsTable) :
            \A i, j \in 1..Len(q) : i < j => HotelOrdered(q[i], q[j]) } }

\* what db.Query and the iteration over its rows may do for a result set:
\*   err # "": db.Query returned that error;
\*   otherwise rows.Next() yielded the first n rows of rows, and iterErr tells
\*   whether the iteration ended by a store error (rows.Err() # nil)
QueryOutcomes(results) ==
    { [err |-> e, rows |-> <<>>, n |-> 0, iterErr |-> FALSE] : e \in StoreErrors }
    \cup
    { [err |-> "", rows |-> r, n |-> Len(r), iterErr |-> b] :
        r \in results, b \in BOOLEAN }
    \cup
    UNION { { [err |-> "", rows |-> r, n |-> k, iterErr |-> TRUE] :
                k \in 0..(Len(r) - 1) } : r \in results }

\* the rows that rows.Next() yielded
Delivered(q) == SubSeq(q.rows, 1, q.n)

----------------------------------------------------------------------------
(* The listing service (Go) *)

\* type City struct
City(id, name) == [id |-> id, name |-> name]

\* type Hotel struct
Hotel(id, name, cityId, cityName, capacity, price) ==
    [id |-> id, name |-> name, city_id |-> cityId, city_name |-> cityName,
     capacity |-> capacity, price |-> price]

\* a Go slice or a JavaScript array as a JSON value; a nil slice is JSON null
JsonArray(items) == [null |-> FALSE, items |-> items]
JsonNull == [null |-> TRUE, items |-> <<>>]

\* type Response struct, as marshalled: Error is omitted from the JSON when ""
Response(success, data, count, err) ==
    [success |-> success, data |-> data, count |-> count, error |-> err]

\* c.JSON(status, body)
JSON(status, body) == [status |-> status, body |-> body]

\* the integer part and the fraction (without trailing zeros) of a decimal text
Decimal(text) ==
    LET dots == { i \in 1..Len(text) : text[i] = 46 }
        dot  == IF dots = {} THEN Len(text) + 1 ELSE CHOOSE i \in dots : TRUE
    IN  [i |-> SubSeq(text, 1, dot - 1),
         f |-> StripZeros(SubSeq(text, dot + 1, Len(text)))]

\* 2^53 = 9007199254740992 and 2^54 - 1 = 18014398509481983, as digits: the
\* integers from which on a float64 holds only the even ones
TwoTo53 == <<57, 48, 48, 55, 49, 57, 57, 50, 53, 52, 55, 52, 48, 57, 57, 50>>
TwoTo54Less1 == <<49, 56, 48, 49, 52, 51, 57, 56, 53, 48, 57, 52, 56, 49, 57, 56, 51>>

\* the float64 nearest to an integer n of [2^53, 2^54), given by its digits:
\* n when even, else the neighbour that is a multiple of 4 (ties to even)
RoundToEven(n) ==
    LET last == n[Len(n)] - 48
        two  == 10 * (n[Len(n) - 1] - 48) + last
    IN  IF last % 2 = 0 THEN n
        ELSE IF two % 4 = 1 THEN SubSeq(n, 1, Len(n) - 1) \o <<n[Len(n)] - 1>>
        ELSE Increment(n)

\* strconv.ParseFloat(text, 64), as rows.Scan applies it to a numeric column.
\* A float64 is named by its shortest decimal form: the digits of the integer
\* part and the digits of the fraction without trailing zeros.  For a text of
\* at most 15 significant digits that is the decimal itself; an integer of
\* [2^53, 2^54) is rounded to an even one.
ParseFloat(text) ==
    LET d == Decimal(text)
    IN  IF d.f = <<>> /\ DecLeq(TwoTo53, d.i) /\ DecLeq(d.i, TwoTo54Less1)
        THEN [i |-> RoundToEven(d.i), f |-> <<>>]
        ELSE d

\* rows.Scan(&city.ID, &city.Name): fails on a NULL name (a string cannot hold NULL)
ScanCity(row) ==
    [ok |-> ~row.nameNull, value |-> City(row.id, row.name)]

\* rows.Scan(&hotel.ID, &hotel.Name, &hotel.CityID, &hotel.CityName,
\* &hotel.Capacity, &hotel.Price): fails on a NULL city (an int cannot hold NULL)
ScanHotel(row) ==
    [ok |-> ~row.cityNull,
     value |-> Hotel(row.id, row.name, row.city, row.cname, row.capacity,
                     ParseFloat(row.price))]

\* for rows.Next() { if err := rows.Scan(...); err != nil { continue }; append }
RECURSIVE CollectCities(_)
CollectCities(rows) ==
    IF rows = <<>> THEN <<>>
    ELSE LET s == ScanCity(Head(rows))
         IN  (IF s.ok THEN <<s.value>> ELSE <<>>) \o CollectCities(Tail(rows))

\* mutant of CollectHotels: the loop ends at the first row that fails to scan
RECURSIVE CollectHotelsBreak(_)
CollectHotelsBreak(rows) ==
    IF rows = <<>> THEN <<>>
    ELSE LET s == ScanHotel(Head(rows))
         IN  IF s.ok THEN <<s.value>> \o CollectHotelsBreak(Tail(rows)) ELSE <<>>

RECURSIVE CollectHotels(_)
CollectHotels(rows) ==
    IF rows = <<>> THEN <<>>
    ELSE LET s == ScanHotel(Head(rows))
         IN  (IF s.ok THEN <<s.value>> ELSE <<>>) \o CollectHotels(Tail(rows))

\* mutant of getAllCities: Count is the number of rows read, scanned or not
getAllCitiesCountRows(q) ==
    IF q.err # ""
    THEN << JSON(500, Response(FALSE, JsonNull, 0, q.err)) >>
    ELSE LET list == CollectCities(Delivered(q))
         IN  << JSON(200, Response(TRUE, JsonArray(list), Len(Delivered(q)), "")) >>

\* mutant of getAllCities: the slice is declared (var cities []City), not made
getAllCitiesNilSlice(q) ==
    IF q.err # ""
    THEN << JSON(500, Response(FALSE, JsonNull, 0, q.err)) >>
    ELSE LET list == CollectCities(Delivered(q))
         IN  << JSON(200, Response(TRUE, IF list = <<>> THEN JsonNull ELSE JsonArray(list),
                                   Len(list), "")) >>

\* mutant of getAllCities: no return after the error response
getAllCitiesNoReturn(q) ==
    LET list == CollectCities(Delivered(q))
        okay == JSON(200, Response(TRUE, JsonArray(list), Len(list), ""))
    IN  IF q.err # ""
        THEN << JSON(500, Response(FALSE, JsonNull, 0, q.err)), okay >>
        ELSE << okay >>

\* func getAllCities, for what the store did (q): the c.JSON calls it makes
getAllCities(q) ==
    IF q.err # ""
    THEN << JSON(500, Response(FALSE, JsonNull, 0, q.err)) >>
    ELSE LET list == CollectCities(Delivered(q))
         IN  << JSON(200, Response(TRUE, JsonArray(list), Len(list), "")) >>

\* mutant of getAllHotels: the error response is written with http.StatusOK
getAllHotelsOkOnError(q) ==
    IF q.err # ""
    THEN << JSON(200, Response(FALSE, JsonNull, 0, q.err)) >>
    ELSE LET list == CollectHotels(Delivered(q))
         IN  << JSON(200, Response(TRUE, JsonArray(list), Len(list), "")) >>

\* func getAllHotels, for what the store did (q): the c.JSON calls it makes
getAllHotels(q) ==
    IF q.err # ""
    THEN << JSON(500, Response(FALSE, JsonNull, 0, q.err)) >>
    ELSE LET list == CollectHotels(Delivered(q))
         IN  << JSON(200, Response(TRUE, JsonArray(list), Len(list), "")) >>

----------------------------------------------------------------------------
(* The client (React component HotelSearch): JavaScript text operations *)

\* String.prototype.toLowerCase
toLowerCase(s) == [i \in 1..Len(s) |-> IF s[i] \in 65..90 THEN s[i] + 32 ELSE s[i]]

\* the white space String.prototype.trim removes (tab, LF, VT, FF, CR, space)
IsWhiteSpace(c) == c \in {9, 10, 11, 12, 13, 32}

\* mutant of trim: the query is tested as typed (!query)
trimNothing(s) == s

\* String.prototype.trim
trim(s) ==
    LET keep == { i \in 1..Len(s) : ~IsWhiteSpace(s[i]) }
    IN  IF keep = {} THEN Empty
        ELSE SubSeq(s, CHOOSE i \in keep : \A j \in keep : i <= j,
                       CHOOSE i \in keep : \A j \in keep : i >= j)

\* String.prototype.includes
includes(value, searchQuery) ==
    \E i \in 0..(Len(value) - Len(searchQuery)) :
        SubSeq(value, i + 1, i + Len(searchQuery)) = searchQuery

\* the properties of a record that hold integers, and the one that holds a float64
IntFields == {"id", "city_id", "capacity"}
FloatFields == {"price"}

\* whether record[field] is falsy in JavaScript: undefined, 0 or ""
IsFalsy(record, field) ==
    IF field \notin DOMAIN record THEN TRUE
    ELSE IF field \in IntFields THEN record[field] = 0
    ELSE IF field \in FloatFields THEN record[field].i = <<48>> /\ record[field].f = <<>>
    ELSE record[field] = Empty

\* String(record[field]) for a property that is present
String(record, field) ==
    IF field \in IntFields THEN Digits(record[field])
    ELSE IF field \in FloatFields
         THEN record[field].i
              \o (IF record[field].f = <<>> THEN <<>> ELSE <<46>> \o record[field].f)
    ELSE record[field]

\* String(record[field] || '')
StringOrEmpty(record, field) ==
    IF IsFalsy(record, field) THEN Empty ELSE String(record, field)

\* the filter callback of cities.filter(...)
CityMatches(city, field, searchQuery) ==
    includes(toLowerCase(StringOrEmpty(city, field)), searchQuery)

\* mutant of HotelMatches: no special case for field "city"
HotelMatchesByProperty(hotel, field, searchQuery) ==
    includes(toLowerCase(StringOrEmpty(hotel, field)), searchQuery)

\* the filter callback of hotels.filter(...)
HotelMatches(hotel, field, searchQuery) ==
    LET value == IF field = "city"
                 THEN toLowerCase(StringOrEmpty(hotel, "city_name"))
                 ELSE toLowerCase(StringOrEmpty(hotel, field))
    IN  includes(value, searchQuery)

\* Array.prototype.filter
RECURSIVE Filter(_, _, _, _)
Filter(list, table, field, searchQuery) ==
    IF list = <<>> THEN <<>>
    ELSE LET x == Head(list)
             m == IF table = "cities" THEN CityMatches(x, field, searchQuery)
                  ELSE HotelMatches(x, field, searchQuery)
         IN  (IF m THEN <<x>> ELSE <<>>) \o Filter(Tail(list), table, field, searchQuery)

\* filterData: the value it passes to setFilteredData
filterData(sp, cs, hs) ==
    IF trim(sp.query) = Empty
    THEN (IF sp.table = "cities" THEN cs ELSE hs)
    ELSE LET searchQuery == toLowerCase(sp.query)
         IN  IF sp.table = "cities"
             THEN Filter(cs, "cities", sp.field, searchQuery)
             ELSE Filter(hs, "hotels", sp.field, searchQuery)

\* getFieldOptions: the values of the options of the field selector
getFieldOptions(table) ==
    IF table = "cities" THEN {"id", "name"}
    ELSE {"id", "name", "city", "capacity", "price"}

\* the tables of the table selector
Tables == {"hotels", "cities"}

\* the texts typed into the search box: "", " ", "par", "PAR", "0", "12"
Queries ==
    { Empty, <<32>>, <<112, 97, 114>>, <<80, 65, 82>>, <<48>>, <<49, 50>> }

----------------------------------------------------------------------------
(* State machine *)

\* a fetch: not issued, pending, fulfilled with a response, or rejected
NoBody == Response(FALSE, JsonNull, 0, "")
FetchIdle == [state |-> "idle", parsable |-> FALSE, body |-> NoBody]
FetchPending == [state |-> "pending", parsable |-> FALSE, body |-> NoBody]
FetchRejected == [state |-> "rejected", parsable |-> FALSE, body |-> NoBody]

\* the response a fetch is fulfilled with, for the c.JSON calls the handler made:
\* one call writes one JSON document; once loadAllData has ended nothing holds
\* the response any more
FetchFulfilled(out) ==
    IF pc = "done" THEN [state |-> "fulfilled", parsable |-> FALSE, body |-> NoBody]
    ELSE IF Len(out) = 1 THEN [state |-> "fulfilled", parsable |-> TRUE, body |-> out[1].body]
    ELSE [state |-> "fulfilled", parsable |-> FALSE, body |-> NoBody]

\* a response whose body is not JSON (written by something other than c.JSON)
FetchGarbled == [state |-> "fulfilled", parsable |-> FALSE, body |-> NoBody]

Init ==
    /\ citiesTable \in { S \in SUBSET CityRows : Cardinality(S) <= MaxCities }
    /\ hotelsTable \in { S \in SUBSET HotelRows : Cardinality(S) <= MaxHotels }
    /\ served = <<>>
    /\ active = <<>>
    /\ cities = <<>>
    /\ hotels = <<>>
    /\ filteredData = <<>>
    /\ loading = TRUE
    /\ error = ""
    /\ searchParams = [table |-> "hotels", field |-> "name", query |-> Empty]
    /\ pc = "start"
    /\ citiesRes = FetchIdle
    /\ hotelsRes = FetchIdle
    /\ effectPending = TRUE

(* Listing service: one request to GET /api/cities or GET /api/hotels *)

ServeCities ==
    /\ Len(served) < MaxRequests
    /\ \E q \in QueryOutcomes(SelectCities) :
        served' = Append(served, [endpoint |-> "cities", q |-> q, out |-> getAllCities(q)])
    /\ UNCHANGED <<storeVars, active, clientVars>>

ServeHotels ==
    /\ Len(served) < MaxRequests
    /\ \E q \in QueryOutcomes(SelectHotels) :
        served' = Append(served, [endpoint |-> "hotels", q |-> q, out |-> getAllHotels(q)])
    /\ UNCHANGED <<storeVars, active, clientVars>>

(* Listing service, one step of a handler at a time: requests run            *)
(* concurrently, each in its own goroutine, sharing only the pool db          *)

\* a handler after db.Query returned rows: the result set, the number of rows
\* read, and its slice (cities / hotels)
Handler(endpoint, rows) == [endpoint |-> endpoint, rows |-> rows, pos |-> 0, acc |-> <<>>]

\* a sequence without its i-th element
Without(seq, i) == SubSeq(seq, 1, i - 1) \o SubSeq(seq, i + 1, Len(seq))

\* db.Query of getAllCities: it fails and the handler answers 500, or it
\* returns rows and the handler makes its slice
QueryCities ==
    /\ Len(served) + Len(active) < MaxRequests
    /\ \/ \E e \in StoreErrors :
            /\ served' = Append(served,
                    [endpoint |-> "cities",
                     q |-> [err |-> e, rows |-> <<>>, n |-> 0, iterErr |-> FALSE],
                     out |-> << JSON(500, Response(FALSE, JsonNull, 0, e)) >>])
            /\ UNCHANGED active
       \/ \E rows \in SelectCities :
            /\ active' = Append(active, Handler("cities", rows))
            /\ UNCHANGED served
    /\ UNCHANGED <<storeVars, clientVars>>

\* db.Query of getAllHotels
QueryHotels ==
    /\ Len(served) + Len(active) < MaxRequests
    /\ \/ \E e \in StoreErrors :
            /\ served' = Append(served,
                    [endpoint |-> "hotels",
                     q |-> [err |-> e, rows |-> <<>>, n |-> 0, iterErr |-> FALSE],
                     out |-> << JSON(500, Response(FALSE, JsonNull, 0, e)) >>])
            /\ UNCHANGED active
       \/ \E rows \in SelectHotels :
            /\ active' = Append(active, Handler("hotels", rows))
            /\ UNCHANGED served
    /\ UNCHANGED <<storeVars, clientVars>>

\* rows.Scan of the handler's endpoint
Scan(endpoint, row) == IF endpoint = "cities" THEN ScanCity(row) ELSE ScanHotel(row)

\* mutant of NextRow: the slice is one package-level variable per endpoint,
\* appended to by every request of that endpoint
NextRowShared(i) ==
    /\ i \in 1..Len(active)
    /\ active[i].pos < Len(active[i].rows)
    /\ LET s == Scan(active[i].endpoint, active[i].rows[active[i].pos + 1])
       IN  active' = [j \in 1..Len(active) |->
                [active[j] EXCEPT
                    !.pos = IF j = i THEN @ + 1 ELSE @,
                    !.acc = IF s.ok /\ active[j].endpoint = active[i].endpoint
                            THEN Append(@, s.value) ELSE @]]
    /\ UNCHANGED <<storeVars, served, clientVars>>

\* one turn of the loop of handler i: rows.Next() is true, the row is scanned
\* and, unless the scan fails, appended
NextRow(i) ==
    /\ i \in 1..Len(active)
    /\ active[i].pos < Len(active[i].rows)
    /\ LET s == Scan(active[i].endpoint, active[i].rows[active[i].pos + 1])
       IN  active' = [active EXCEPT
                ![i].pos = @ + 1,
                ![i].acc = IF s.ok THEN Append(@, s.value) ELSE @]
    /\ UNCHANGED <<storeVars, clientVars, served>>

\* rows.Next() of handler i is false, at the end of the rows or by a store
\* error before it; the handler answers 200 with its slice
EndRows(i) ==
    /\ i \in 1..Len(active)
    /\ \E iterErr \in BOOLEAN :
        /\ active[i].pos < Len(active[i].rows) => iterErr
        /\ served' = Append(served,
                [endpoint |-> active[i].endpoint,
                 q |-> [err |-> "", rows |-> active[i].rows, n |-> active[i].pos,
                        iterErr |-> iterErr],
                 out |-> << JSON(200, Response(TRUE, JsonArray(active[i].acc),
                                               Len(active[i].acc), "")) >>])
    /\ active' = Without(active, i)
    /\ UNCHANGED <<storeVars, clientVars>>

(* Client *)

\* the effects of the first render: loadAllData() up to its await, then filterData()
Mount ==
    /\ pc = "start"
    /\ loading' = TRUE
    /\ error' = ""
    /\ citiesRes' = FetchPending
    /\ hotelsRes' = FetchPending
    /\ filteredData' = filterData(searchParams, cities, hotels)
    /\ effectPending' = FALSE
    /\ pc' = "awaiting"
    /\ UNCHANGED <<storeVars, serverVars, cities, hotels, searchParams>>

\* fetch(`${API_URL}/cities`) is answered by getAllCities
FetchCitiesFulfils ==
    /\ citiesRes.state = "pending"
    /\ \E q \in QueryOutcomes(SelectCities) : citiesRes' = FetchFulfilled(getAllCities(q))
    /\ UNCHANGED <<storeVars, serverVars, cities, hotels, filteredData, loading, error,
                   searchParams, pc, hotelsRes, effectPending>>

\* fetch(`${API_URL}/hotels`) is answered by getAllHotels
FetchHotelsFulfils ==
    /\ hotelsRes.state = "pending"
    /\ \E q \in QueryOutcomes(SelectHotels) : hotelsRes' = FetchFulfilled(getAllHotels(q))
    /\ UNCHANGED <<storeVars, serverVars, cities, hotels, filteredData, loading, error,
                   searchParams, pc, citiesRes, effectPending>>

\* a fetch is answered with a body that is not JSON
FetchGarbles ==
    /\ \/ citiesRes.state = "pending" /\ citiesRes' = FetchGarbled /\ UNCHANGED hotelsRes
       \/ hotelsRes.state = "pending" /\ hotelsRes' = FetchGarbled /\ UNCHANGED citiesRes
    /\ UNCHANGED <<storeVars, serverVars, cities, hotels, filteredData, loading, error,
                   searchParams, pc, effectPending>>

\* a fetch fails (network error)
FetchRejects ==
    /\ \/ citiesRes.state = "pending" /\ citiesRes' = FetchRejected /\ UNCHANGED hotelsRes
       \/ hotelsRes.state = "pending" /\ hotelsRes' = FetchRejected /\ UNCHANGED citiesRes
    /\ UNCHANGED <<storeVars, serverVars, cities, hotels, filteredData, loading, error,
                   searchParams, pc, effectPending>>

\* citiesData.data || []
DataOrEmpty(body) == IF body.data.null THEN <<>> ELSE body.data.items

\* mutant of loadAllData: it goes on as soon as one fetch has settled
\* (Promise.race in place of Promise.all)
loadAllDataRace ==
    /\ pc = "awaiting"
    /\ \/ citiesRes.state \in {"rejected", "fulfilled"}
       \/ hotelsRes.state \in {"rejected", "fulfilled"}
    /\ IF \/ citiesRes.state = "rejected" \/ hotelsRes.state = "rejected"
          \/ ~citiesRes.parsable \/ ~hotelsRes.parsable
       THEN /\ error' = "Error connecting to server"
            /\ UNCHANGED <<cities, hotels, effectPending>>
       ELSE IF citiesRes.body.success /\ hotelsRes.body.success
       THEN /\ cities' = DataOrEmpty(citiesRes.body)
            /\ hotels' = DataOrEmpty(hotelsRes.body)
            /\ effectPending' = TRUE
            /\ UNCHANGED error
       ELSE /\ error' = "Failed to load data"
            /\ UNCHANGED <<cities, hotels, effectPending>>
    /\ loading' = FALSE
    /\ pc' = "done"
    /\ citiesRes' = [citiesRes EXCEPT !.parsable = FALSE, !.body = NoBody]
    /\ hotelsRes' = [hotelsRes EXCEPT !.parsable = FALSE, !.body = NoBody]
    /\ UNCHANGED <<storeVars, serverVars, filteredData, searchParams>>

\* mutant of loadAllData: each listing that arrived with success is stored,
\* whatever became of the other
loadAllDataPartial ==
    /\ pc = "awaiting"
    /\ \/ citiesRes.state = "rejected"
       \/ hotelsRes.state = "rejected"
       \/ citiesRes.state = "fulfilled" /\ hotelsRes.state = "fulfilled"
    /\ LET cOk == citiesRes.state = "fulfilled" /\ citiesRes.parsable /\ citiesRes.body.success
           hOk == hotelsRes.state = "fulfilled" /\ hotelsRes.parsable /\ hotelsRes.body.success
       IN  /\ cities' = (IF cOk THEN DataOrEmpty(citiesRes.body) ELSE cities)
           /\ hotels' = (IF hOk THEN DataOrEmpty(hotelsRes.body) ELSE hotels)
           /\ effectPending' = (effectPending \/ cOk \/ hOk)
           /\ error' = (IF cOk /\ hOk THEN error ELSE "Failed to load data")
    /\ loading' = FALSE
    /\ pc' = "done"
    /\ citiesRes' = [citiesRes EXCEPT !.parsable = FALSE, !.body = NoBody]
    /\ hotelsRes' = [hotelsRes EXCEPT !.parsable = FALSE, !.body = NoBody]
    /\ UNCHANGED <<storeVars, serverVars, filteredData, searchParams>>

\* mutant of loadAllData: setLoading(false) is at the end of the try block, not
\* in finally, so that the catch path leaves loading set
loadAllDataNoFinally ==
    /\ pc = "awaiting"
    /\ \/ citiesRes.state = "rejected"
       \/ hotelsRes.state = "rejected"
       \/ citiesRes.state = "fulfilled" /\ hotelsRes.state = "fulfilled"
    /\ IF \/ citiesRes.state = "rejected" \/ hotelsRes.state = "rejected"
          \/ ~citiesRes.parsable \/ ~hotelsRes.parsable
       THEN /\ error' = "Error connecting to server"
            /\ UNCHANGED <<cities, hotels, effectPending, loading>>
       ELSE IF citiesRes.body.success /\ hotelsRes.body.success
       THEN /\ cities' = DataOrEmpty(citiesRes.body)
            /\ hotels' = DataOrEmpty(hotelsRes.body)
            /\ effectPending' = TRUE
            /\ loading' = FALSE
            /\ UNCHANGED error
       ELSE /\ error' = "Failed to load data"
            /\ loading' = FALSE
            /\ UNCHANGED <<cities, hotels, effectPending>>
    /\ pc' = "done"
    /\ citiesRes' = [citiesRes EXCEPT !.parsable = FALSE, !.body = NoBody]
    /\ hotelsRes' = [hotelsRes EXCEPT !.parsable = FALSE, !.body = NoBody]
    /\ UNCHANGED <<storeVars, serverVars, filteredData, searchParams>>

\* loadAllData from the settling of Promise.all to its end: Promise.all rejects
\* as soon as one fetch rejects and is fulfilled when both are; then the two
\* json() calls, the test of the success flags, catch and finally
loadAllData ==
    /\ pc = "awaiting"
    /\ \/ citiesRes.state = "rejected"
       \/ hotelsRes.state = "rejected"
       \/ citiesRes.state = "fulfilled" /\ hotelsRes.state = "fulfilled"
    /\ IF \/ citiesRes.state = "rejected" \/ hotelsRes.state = "rejected"
          \/ ~citiesRes.parsable \/ ~hotelsRes.parsable
       THEN /\ error' = "Error connecting to server"
            /\ UNCHANGED <<cities, hotels, effectPending>>
       ELSE IF citiesRes.body.success /\ hotelsRes.body.success
       THEN /\ cities' = DataOrEmpty(citiesRes.body)
            /\ hotels' = DataOrEmpty(hotelsRes.body)
            /\ effectPending' = TRUE
            /\ UNCHANGED error
       ELSE /\ error' = "Failed to load data"
            /\ UNCHANGED <<cities, hotels, effectPending>>
    /\ loading' = FALSE
    /\ pc' = "done"
    /\ citiesRes' = [citiesRes EXCEPT !.parsable = FALSE, !.body = NoBody]
    /\ hotelsRes' = [hotelsRes EXCEPT !.parsable = FALSE, !.body = NoBody]
    /\ UNCHANGED <<storeVars, serverVars, filteredData, searchParams>>

\* useEffect(() => { filterData(); }, [filterData]): runs after a render in
\* which searchParams, cities or hotels changed
FilterEffect ==
    /\ pc # "start"
    /\ effectPending
    /\ filteredData' = filterData(searchParams, cities, hotels)
    /\ effectPending' = FALSE
    /\ UNCHANGED <<storeVars, serverVars, cities, hotels, loading, error, searchParams,
                   pc, citiesRes, hotelsRes>>

\* the search form is rendered, and the effects of the last render have run
CanInteract == ~loading /\ ~effectPending

\* mutant of handleTableChange: filteredData is left to the filter effect
handleTableChangeNoSet ==
    /\ CanInteract
    /\ \E newTable \in Tables \ {searchParams.table} :
        searchParams' = [table |-> newTable, field |-> "name", query |-> Empty]
    /\ effectPending' = TRUE
    /\ UNCHANGED <<storeVars, serverVars, cities, hotels, filteredData, loading, error, pc,
                   citiesRes, hotelsRes>>

\* mutant of handleTableChange: only the table of searchParams is replaced
handleTableChangeKeepsSearch ==
    /\ CanInteract
    /\ \E newTable \in Tables \ {searchParams.table} :
        /\ searchParams' = [searchParams EXCEPT !.table = newTable]
        /\ filteredData' = (IF newTable = "cities" THEN cities ELSE hotels)
    /\ effectPending' = TRUE
    /\ UNCHANGED <<storeVars, serverVars, cities, hotels, loading, error, pc,
                   citiesRes, hotelsRes>>

\* mutant of handleTableChange: the field of searchParams is kept
\* (setSearchParams({ ...searchParams, table: newTable, query: '' }))
handleTableChangeKeepsField ==
    /\ CanInteract
    /\ \E newTable \in Tables \ {searchParams.table} :
        /\ searchParams' = [searchParams EXCEPT !.table = newTable, !.query = Empty]
        /\ filteredData' = (IF newTable = "cities" THEN cities ELSE hotels)
    /\ effectPending' = TRUE
    /\ UNCHANGED <<storeVars, serverVars, cities, hotels, loading, error, pc,
                   citiesRes, hotelsRes>>

handleTableChange ==
    /\ CanInteract
    /\ \E newTable \in Tables \ {searchParams.table} :
        /\ searchParams' = [table |-> newTable, field |-> "name", query |-> Empty]
        /\ filteredData' = (IF newTable = "cities" THEN cities ELSE hotels)
    /\ effectPending' = TRUE
    /\ UNCHANGED <<storeVars, serverVars, cities, hotels, loading, error, pc,
                   citiesRes, hotelsRes>>

handleFieldChange ==
    /\ CanInteract
    /\ \E f \in getFieldOptions(searchParams.table) \ {searchParams.field} :
        searchParams' = [searchParams EXCEPT !.field = f]
    /\ effectPending' = TRUE
    /\ UNCHANGED <<storeVars, serverVars, cities, hotels, filteredData, loading, error,
                   pc, citiesRes, hotelsRes>>

handleQueryChange ==
    /\ CanInteract
    /\ \E q \in Queries \ {searchParams.query} :
        searchParams' = [searchParams EXCEPT !.query = q]
    /\ effectPending' = TRUE
    /\ UNCHANGED <<storeVars, serverVars, cities, hotels, filteredData, loading, error,
                   pc, citiesRes, hotelsRes>>

\* mutant of handleClear: the query is cleared in the state object itself
\* (searchParams.query = ''; setSearchParams(searchParams)), so the state keeps
\* its identity, nothing is rendered and the filter effect does not run
handleClearInPlace ==
    /\ CanInteract
    /\ searchParams' = [searchParams EXCEPT !.query = Empty]
    /\ UNCHANGED <<storeVars, serverVars, cities, hotels, filteredData, loading, error,
                   pc, citiesRes, hotelsRes, effectPending>>

\* mutant of handleClear: clearing the query loads the listings again
handleClearReloads ==
    /\ CanInteract
    /\ searchParams' = [searchParams EXCEPT !.query = Empty]
    /\ effectPending' = TRUE
    /\ citiesRes' = FetchPending
    /\ hotelsRes' = FetchPending
    /\ UNCHANGED <<storeVars, serverVars, cities, hotels, filteredData, loading, error, pc>>

handleClear ==
    /\ CanInteract
    /\ searchParams' = [searchParams EXCEPT !.query = Empty]
    /\ effectPending' = TRUE
    /\ UNCHANGED <<storeVars, serverVars, cities, hotels, filteredData, loading, error,
                   pc, citiesRes, hotelsRes>>

ServerNext == ServeCities \/ ServeHotels

ClientNext ==
    \/ Mount
    \/ FetchCitiesFulfils
    \/ FetchHotelsFulfils
    \/ FetchGarbles
    \/ FetchRejects
    \/ loadAllData
    \/ FilterEffect
    \/ handleTableChange
    \/ handleFieldChange
    \/ handleQueryChange
    \/ handleClear

\* the listing service with its handlers interleaved
ConcurrentNext ==
    \/ QueryCities
    \/ QueryHotels
    \/ \E i \in 1..MaxRequests : NextRow(i)
    \/ \E i \in 1..MaxRequests : EndRows(i)

Next == ServerNext \/ ConcurrentNext \/ ClientNext

\* the whole system
Spec == Init /\ [][Next]_vars

\* the listing service alone, serving MaxRequests requests
SpecServer == Init /\ [][ServerNext]_vars

\* the listing service alone, the steps of its handlers interleaved
SpecConcurrent == Init /\ [][ConcurrentNext]_vars

\* the client alone, its fetches answered by the handlers of the listing service
SpecClient == Init /\ [][ClientNext]_vars

\* the client, with the event loop running the continuation of loadAllData
\* once Promise.all has settled
SpecClientFair == SpecClient /\ WF_vars(loadAllData)

----------------------------------------------------------------------------
(* Claims about the listing service (checked under SpecServer) *)

\* the requests served so far
Requests == 1..Len(served)

\* the requests of an endpoint whose db.Query did not fail
Succeeded(endpoint) ==
    { r \in Requests : served[r].endpoint = endpoint /\ served[r].q.err = "" }

\* the number of elements of data, a null data counting as 0
DataLength(body) == IF body.data.null THEN 0 ELSE Len(body.data.items)

\* whether the Go variables of the handler can hold the columns of a row
Decodable(endpoint, row) == IF endpoint = "cities" THEN ~row.nameNull ELSE ~row.cityNull

\* the ids of a list of records
RECURSIVE Ids(_)
Ids(list) == IF list = <<>> THEN <<>> ELSE <<Head(list).id>> \o Ids(Tail(list))

\* C1: every envelope returned by List Cities or List Hotels, on the success
\* path and on the failure path, has count equal to the number of elements of
\* data (null data counting as 0).
C1_CountIsLength ==
    \A r \in Requests : \A k \in 1..Len(served[r].out) :
        served[r].out[k].body.count = DataLength(served[r].out[k].body)

\* C1 witness: a success envelope with data after a skipped row, and a failure envelope
C1_Witness ==
    /\ \E r \in Succeeded("cities") :
        /\ Len(served[r].out) = 1
        /\ served[r].out[1].body.count = 1
        /\ served[r].q.n = 2
    /\ \E r \in Requests : served[r].q.err # "" /\ Len(served[r].out) = 1

\* the name the hotels row h resolves to in table cities: the name of the city
\* with the id the hotel refers to, and "" when there is none (or it has no name)
ResolvedCityName(h) ==
    IF \E c \in citiesTable : c.id = h.city /\ ~c.nameNull
    THEN (CHOOSE c \in citiesTable : c.id = h.city /\ ~c.nameNull).name
    ELSE Empty

\* C2 (as claimed): a hotel whose city reference is null is returned by List
\* Hotels with city_name "": whenever the store delivered the complete result
\* set, each such hotel is an element of data.
C2_NullCityHotelReturned ==
    \A r \in Succeeded("hotels") :
        (served[r].q.n = Len(served[r].q.rows) /\ Len(served[r].out) = 1) =>
            \A h \in hotelsTable : h.cityNull =>
                \E i \in 1..DataLength(served[r].out[1].body) :
                    /\ served[r].out[1].body.data.items[i].id = h.id
                    /\ served[r].out[1].body.data.items[i].city_name = Empty

\* C3: List Hotels returns a hotel whose non-null city reference matches no
\* cities row with city_name "", and a hotel whose reference matches a city
\* with that city's name: every element of data carries the resolved name of
\* its hotels row, and when the store delivered the complete result set every
\* hotel with a non-null reference is an element of data.
C3_CityNameResolved ==
    \A r \in Succeeded("hotels") :
        /\ Len(served[r].out) = 1
        /\ \A i \in 1..DataLength(served[r].out[1].body) :
            LET x == served[r].out[1].body.data.items[i]
            IN  \E h \in hotelsTable :
                    h.id = x.id /\ ~h.cityNull /\ x.city_name = ResolvedCityName(h)
        /\ served[r].q.n = Len(served[r].q.rows) =>
            \A h \in hotelsTable : ~h.cityNull =>
                \E i \in 1..DataLength(served[r].out[1].body) :
                    served[r].out[1].body.data.items[i].id = h.id

\* C3 witness: a response with the hotel Apart (city 9, no such city) with
\* city_name "" and the hotel Grand (city 1) with city_name "Paris"
C3_Witness ==
    \E r \in Succeeded("hotels") :
        /\ Len(served[r].out) = 1
        /\ DataLength(served[r].out[1].body) = 2
        /\ LET d == served[r].out[1].body.data.items
           IN  /\ d[1].id = 3 /\ d[1].city_id = 9 /\ d[1].city_name = Empty
               /\ d[2].id = 1 /\ d[2].city_name = <<80, 97, 114, 105, 115>>
        /\ \A c \in citiesTable : c.id # 9

\* the table an endpoint queries
TableOf(endpoint) == IF endpoint = "cities" THEN citiesTable ELSE hotelsTable

\* C4: when the queried table has zero rows, List Cities and List Hotels
\* return status 200 with success true, count 0 and data an empty array, not
\* null (the query itself not failing).
C4_EmptyTable ==
    \A r \in Requests :
        (served[r].q.err = "" /\ TableOf(served[r].endpoint) = {}) =>
            /\ Len(served[r].out) = 1
            /\ served[r].out[1].status = 200
            /\ served[r].out[1].body.success
            /\ served[r].out[1].body.count = 0
            /\ ~served[r].out[1].body.data.null
            /\ served[r].out[1].body.data.items = <<>>

\* C4 witness: both endpoints have answered for an empty table
C4_Witness ==
    /\ citiesTable = {} /\ hotelsTable = {}
    /\ \E r \in Succeeded("cities") : served[r].out[1].status = 200
    /\ \E r \in Succeeded("hotels") : served[r].out[1].status = 200

\* whether a list of records is in ascending order of name
SortedByName(list) ==
    \A i, j \in 1..Len(list) : i < j => LexLeq(list[i].name, list[j].name)

\* C5: data of List Cities is in ascending order of name, also when rows are
\* skipped because they fail to decode; data of List Hotels is in ascending
\* order of hotel name.
C5_SortedByName ==
    \A r \in Requests : \A k \in 1..Len(served[r].out) :
        served[r].out[k].body.success => SortedByName(served[r].out[k].body.data.items)

\* C5 witness: cities Lyon (id 2) before Paris (id 1), and a hotels response
\* of two hotels between which a row was skipped
C5_Witness ==
    /\ \E r \in Succeeded("cities") :
        /\ DataLength(served[r].out[1].body) = 2
        /\ Ids(served[r].out[1].body.data.items) = <<2, 1>>
    /\ \E r \in Succeeded("hotels") :
        /\ served[r].q.n = 3
        /\ Ids(served[r].out[1].body.data.items) = <<1, 4>>

\* C6: when the store query fails, the handler returns status 500 with
\* success false and the store's error message, no data rows, and emits no
\* second response for the request.
C6_QueryFailure ==
    \A r \in Requests : served[r].q.err # "" =>
        /\ Len(served[r].out) = 1
        /\ served[r].out[1].status = 500
        /\ ~served[r].out[1].body.success
        /\ served[r].out[1].body.error = served[r].q.err
        /\ DataLength(served[r].out[1].body) = 0

\* C6 witness: the query of each endpoint has failed
C6_Witness ==
    /\ \E r \in Requests : served[r].endpoint = "cities" /\ served[r].q.err # ""
    /\ \E r \in Requests : served[r].endpoint = "hotels" /\ served[r].q.err # ""

\* the rows among rows.Next()'s that decode, in the order of the store
RECURSIVE DecodedIds(_, _)
DecodedIds(endpoint, rows) ==
    IF rows = <<>> THEN <<>>
    ELSE (IF Decodable(endpoint, Head(rows)) THEN <<Head(rows).id>> ELSE <<>>)
         \o DecodedIds(endpoint, Tail(rows))

\* C7: when a row fails to decode only that row is omitted: the response is
\* status 200 with success true, data is exactly the rows that decoded, in
\* the order the store returned them, and count is their number.
C7_RowSkipped ==
    \A r \in Requests : served[r].q.err = "" =>
        /\ Len(served[r].out) = 1
        /\ served[r].out[1].status = 200
        /\ served[r].out[1].body.success
        /\ ~served[r].out[1].body.data.null
        /\ Ids(served[r].out[1].body.data.items)
             = DecodedIds(served[r].endpoint, Delivered(served[r].q))
        /\ served[r].out[1].body.count
             = Len(DecodedIds(served[r].endpoint, Delivered(served[r].q)))

\* C7 witness: a hotels response to three rows, the second of which (Inn, city
\* NULL) failed to decode, and a cities response to two rows, one without name
C7_Witness ==
    /\ \E r \in Succeeded("hotels") :
        /\ served[r].q.n = 3
        /\ served[r].q.rows[2].cityNull
        /\ served[r].out[1].body.count = 2
    /\ \E r \in Succeeded("cities") :
        /\ served[r].q.n = 2
        /\ served[r].q.rows[2].nameNull
        /\ served[r].out[1].body.count = 1

----------------------------------------------------------------------------
(* Claims about the client filter (checked under SpecClient) *)

\* the snapshot of the selected table
Snapshot == IF searchParams.table = "cities" THEN cities ELSE hotels

\* the filter effect has run for the current searchParams and snapshots
Filtered == pc # "start" /\ ~effectPending

\* a query that is empty or consists only of white space
IsBlank(query) == \A i \in 1..Len(query) : IsWhiteSpace(query[i])

\* C8: whenever the query is empty or consists only of white space,
\* filteredData is the complete snapshot of the selected table, with the same
\* elements in the same order, whatever the selected field is.
C8_BlankQueryFullSnapshot ==
    (Filtered /\ IsBlank(searchParams.query)) => filteredData = Snapshot

\* C8 witness: the query " " on field capacity shows both hotels of the snapshot
C8_Witness ==
    /\ Filtered
    /\ searchParams = [table |-> "hotels", field |-> "capacity", query |-> <<32>>]
    /\ Len(hotels) = 2
    /\ filteredData = hotels

\* the text form of the selected field value of a record: the decimal text of
\* a number (0 included), the text itself, "" for an absent value; the field
\* "city" of a hotel selects city_name
TextForm(record, field) ==
    LET f == IF field = "city" /\ "city_name" \in DOMAIN record THEN "city_name" ELSE field
    IN  IF f \notin DOMAIN record THEN Empty ELSE String(record, f)

\* C9 (as claimed): for every non-blank query and every field of the table's
\* option set, a record of the snapshot is in filteredData if and only if the
\* lower-cased text form of its selected field value (numbers, 0 included, as
\* decimal text) contains the lower-cased query.
C9_SubstringMatch ==
    (Filtered /\ ~IsBlank(searchParams.query)
        /\ searchParams.field \in getFieldOptions(searchParams.table)) =>
        \A i \in 1..Len(Snapshot) :
            (\E j \in 1..Len(filteredData) : filteredData[j] = Snapshot[i])
            <=> includes(toLowerCase(TextForm(Snapshot[i], searchParams.field)),
                         toLowerCase(searchParams.query))

\* the ids of the hotels whose city_name, lower-cased, contains the lower-cased query
RECURSIVE CityNameMatchIds(_, _)
CityNameMatchIds(list, query) ==
    IF list = <<>> THEN <<>>
    ELSE (IF includes(toLowerCase(Head(list).city_name), toLowerCase(query))
          THEN <<Head(list).id>> ELSE <<>>)
         \o CityNameMatchIds(Tail(list), query)

\* C10: with table hotels and field "city" the filter matches the query
\* against each hotel's city_name, and a hotel whose city_name is empty is
\* never matched by a non-blank query.
C10_CityFieldUsesCityName ==
    (Filtered /\ searchParams.table = "hotels" /\ searchParams.field = "city"
        /\ ~IsBlank(searchParams.query)) =>
        /\ Ids(filteredData) = CityNameMatchIds(hotels, searchParams.query)
        /\ \A j \in 1..Len(filteredData) : filteredData[j].city_name # Empty

\* C10 witness: field "city", query "par": of the hotels Apart (city_name "")
\* and Grand (city_name "Paris") only Grand is shown
C10_Witness ==
    /\ Filtered
    /\ searchParams = [table |-> "hotels", field |-> "city", query |-> <<112, 97, 114>>]
    /\ Ids(hotels) = <<3, 1>>
    /\ hotels[1].city_name = Empty
    /\ Ids(filteredData) = <<1>>
    /\ filteredData[1].city_name = <<80, 97, 114, 105, 115>>

----------------------------------------------------------------------------
(* Claims about the client state (checked under SpecClient) *)

\* whether a record is a hotel (a city has no city_id)
IsHotel(record) == "city_id" \in DOMAIN record

\* whether two records are the same record of the same table
SameRecord(a, b) == IsHotel(a) = IsHotel(b) /\ a = b

\* whether a is b with some elements left out, the others in b's order
RECURSIVE IsSubsequence(_, _)
IsSubsequence(a, b) ==
    IF a = <<>> THEN TRUE
    ELSE IF b = <<>> THEN FALSE
    ELSE IF SameRecord(Head(a), Head(b)) THEN IsSubsequence(Tail(a), Tail(b))
    ELSE IsSubsequence(a, Tail(b))

\* C11: in every state rendered with loading false, filteredData is an
\* order-preserving subsequence of the snapshot of the selected table: no
\* record from outside that snapshot, none of the other table (also in the
\* render right after a table switch), none reordered or duplicated.
C11_FilteredIsSubsequence ==
    ~loading =>
        /\ IsSubsequence(filteredData, Snapshot)
        /\ \A j \in 1..Len(filteredData) :
            IsHotel(filteredData[j]) = (searchParams.table = "hotels")

\* C11 witness: the render right after a switch to table cities, before the
\* filter effect has run, showing the two cities while hotels were loaded too
C11_Witness ==
    /\ ~loading
    /\ effectPending
    /\ searchParams.table = "cities"
    /\ Len(cities) = 2
    /\ filteredData = cities
    /\ Len(hotels) >= 1

\* C12: switching the table, from any search state, sets the field to "name"
\* and the query to "", and filteredData becomes the full snapshot of the
\* newly selected table.
C12_TableSwitchResets ==
    [][searchParams'.table # searchParams.table =>
        /\ searchParams'.field = "name"
        /\ searchParams'.query = Empty
        /\ filteredData' = (IF searchParams'.table = "cities" THEN cities' ELSE hotels')]_vars

\* C12 witness: back on table hotels right after a switch, field "name",
\* query "", all three hotels shown, with cities loaded as well
C12_Witness ==
    /\ ~loading
    /\ effectPending
    /\ searchParams = [table |-> "hotels", field |-> "name", query |-> Empty]
    /\ Len(hotels) = 3
    /\ filteredData = hotels
    /\ Len(cities) >= 1

\* a fetch that failed: a network error, a body that is not JSON, or an
\* envelope with success false
FetchFailed(res) ==
    \/ res.state = "rejected"
    \/ res.state = "fulfilled" /\ (~res.parsable \/ ~res.body.success)

\* a fetch that delivered an envelope with success true
FetchSucceeded(res) == res.state = "fulfilled" /\ res.parsable /\ res.body.success

\* C13: if either initial fetch fails, the client sets a non-empty error and
\* both snapshots stay empty, also when the other fetch succeeded; the
\* snapshots are set only together, from two successful fetches; a non-empty
\* error never coexists with a non-empty snapshot.
C13_NoPartialLoad ==
    /\ [][(pc = "awaiting" /\ pc' = "done" /\ (FetchFailed(citiesRes) \/ FetchFailed(hotelsRes)))
            => (error' # "" /\ cities' = <<>> /\ hotels' = <<>>)]_vars
    /\ [][(cities' # cities \/ hotels' # hotels)
            => /\ FetchSucceeded(citiesRes) /\ FetchSucceeded(hotelsRes)
               /\ cities' = DataOrEmpty(citiesRes.body)
               /\ hotels' = DataOrEmpty(hotelsRes.body)
               /\ error' = ""]_vars
    /\ [](error # "" => (cities = <<>> /\ hotels = <<>>))
    /\ []((pc = "done" /\ error = "") => (citiesRes.state = "fulfilled" /\ hotelsRes.state = "fulfilled"))

\* C13 witness: the load has ended with an error and empty snapshots although
\* the cities fetch was fulfilled from a table with rows; the hotels fetch rejected
C13_Witness ==
    /\ pc = "done"
    /\ error # ""
    /\ citiesRes.state = "fulfilled"
    /\ hotelsRes.state = "rejected"
    /\ citiesTable # {}
    /\ cities = <<>> /\ hotels = <<>>

\* a fetch that has completed, with a response or with a network error
Settled(res) == res.state \in {"fulfilled", "rejected"}

\* C14 (as claimed): both fetches are issued before either completes, and
\* loading stays true and no listing data is stored or displayed until both
\* fetches have completed.
C14_LoadingUntilBothComplete ==
    /\ (citiesRes.state = "idle") = (hotelsRes.state = "idle")
    /\ (~Settled(citiesRes) \/ ~Settled(hotelsRes)) =>
        (loading /\ cities = <<>> /\ hotels = <<>> /\ filteredData = <<>>)

\* C14 (amended): both fetches are issued before either completes; loading
\* stays true until both fetches have been fulfilled or one has been
\* rejected; no listing data is stored or displayed until both fetches have
\* been fulfilled.
C14_LoadingUntilJoined ==
    /\ (citiesRes.state = "idle") = (hotelsRes.state = "idle")
    /\ ~loading =>
        \/ citiesRes.state = "rejected"
        \/ hotelsRes.state = "rejected"
        \/ citiesRes.state = "fulfilled" /\ hotelsRes.state = "fulfilled"
    /\ (cities # <<>> \/ hotels # <<>> \/ filteredData # <<>>) =>
        (citiesRes.state = "fulfilled" /\ hotelsRes.state = "fulfilled")

\* C14 witness: the hotels response, with rows, has arrived first; the cities
\* fetch is pending, loading is true and nothing is stored
C14_Witness ==
    /\ pc = "awaiting"
    /\ citiesRes.state = "pending"
    /\ FetchSucceeded(hotelsRes)
    /\ DataLength(hotelsRes.body) >= 1
    /\ loading
    /\ cities = <<>> /\ hotels = <<>> /\ filteredData = <<>>

\* a step that issues the fetch of a listing
Issues(res, resNext) == res.state # "pending" /\ resNext.state = "pending"

\* C15: the listings are fetched once per page load: a fetch is issued only
\* by the effect of the first render, and no step after the load (a change of
\* table, field or query, a clear, the filter effect) issues a request or
\* changes the cities or hotels snapshot.
C15_FetchedOnce ==
    /\ [][(Issues(citiesRes, citiesRes') \/ Issues(hotelsRes, hotelsRes'))
            => (pc = "start" /\ Issues(citiesRes, citiesRes') /\ Issues(hotelsRes, hotelsRes'))]_vars
    /\ [][pc = "done" => (cities' = cities /\ hotels' = hotels /\ pc' = "done")]_vars
    /\ [][(cities' # cities \/ hotels' # hotels) => (pc = "awaiting" /\ pc' = "done")]_vars

\* C15 witness: after the load, on table cities with the query "par" filtered
\* on field id, both snapshots are still there and both fetches are fulfilled
C15_Witness ==
    /\ pc = "done"
    /\ ~effectPending
    /\ searchParams = [table |-> "cities", field |-> "id", query |-> <<112, 97, 114>>]
    /\ Len(cities) = 2 /\ Len(hotels) >= 1
    /\ filteredData = <<>>
    /\ citiesRes.state = "fulfilled" /\ hotelsRes.state = "fulfilled"

----------------------------------------------------------------------------
(* Claims about concurrent requests (checked under SpecConcurrent) *)

\* the result sets the store may return to an endpoint
ResultSets(endpoint) == IF endpoint = "cities" THEN SelectCities ELSE SelectHotels

\* the c.JSON calls of the handler of an endpoint run alone, the store doing q
RunAlone(endpoint, q) == IF endpoint = "cities" THEN getAllCities(q) ELSE getAllHotels(q)

\* the slice the handler of an endpoint has built, run alone, after these rows
CollectedAlone(endpoint, rows) ==
    IF endpoint = "cities" THEN CollectCities(rows) ELSE CollectHotels(rows)

\* C16: List Cities and List Hotels never modify the store, and however the
\* steps of the requests interleave, each request is answered with the
\* envelope it would get when run alone against the store (for what the store
\* did for it); no response depends on another request.
C16_RequestsIndependent ==
    /\ [][citiesTable' = citiesTable /\ hotelsTable' = hotelsTable]_vars
    /\ [](\A r \in Requests :
            /\ served[r].q \in QueryOutcomes(ResultSets(served[r].endpoint))
            /\ served[r].out = RunAlone(served[r].endpoint, served[r].q))
    /\ [](\A i \in 1..Len(active) :
            active[i].acc = CollectedAlone(active[i].endpoint,
                                           SubSeq(active[i].rows, 1, active[i].pos)))

\* C16 witness: two hotels requests are in the middle of the same three rows,
\* one after its first row, the other after its second, a skipped one
C16_Witness ==
    /\ Len(active) = 2
    /\ active[1].endpoint = "hotels" /\ active[1].pos = 1 /\ Len(active[1].rows) = 3
    /\ active[2].endpoint = "hotels" /\ active[2].pos = 2 /\ Len(active[2].acc) = 1

----------------------------------------------------------------------------
(* Further claims about the listing service (checked under SpecServer) *)

\* C17 (as claimed): the price of each hotel in the List Hotels response is
\* the exact decimal value held in the store.
C17_PriceExact ==
    \A r \in Succeeded("hotels") : \A k \in 1..Len(served[r].out) :
        \A i \in 1..DataLength(served[r].out[k].body) :
            \A h \in hotelsTable :
                h.id = served[r].out[k].body.data.items[i].id =>
                    served[r].out[k].body.data.items[i].price = Decimal(h.price)

\* C18: in every listing response success is true exactly when the status is
\* 200 and the error is empty, and false exactly when the status is 500; no
\* response has success true together with an error message.
C18_SuccessMatchesStatus ==
    \A r \in Requests : \A k \in 1..Len(served[r].out) :
        LET e == served[r].out[k]
        IN  /\ e.status \in {200, 500}
            /\ e.body.success <=> (e.status = 200 /\ e.body.error = "")
            /\ ~e.body.success <=> e.status = 500
            /\ e.body.success => e.body.error = ""
            /\ ~e.body.success => e.body.error # ""

\* C18 witness: a hotels request answered 200 with success and a hotel, and a
\* hotels request answered 500 with the store's message
C18_Witness ==
    /\ \E r \in Requests :
        /\ served[r].endpoint = "hotels"
        /\ served[r].out[1].status = 200
        /\ served[r].out[1].body.success
        /\ served[r].out[1].body.count >= 1
    /\ \E r \in Requests :
        /\ served[r].endpoint = "hotels"
        /\ served[r].out[1].status = 500
        /\ served[r].out[1].body.error = "pq: connection refused"

\* C19: once both initial fetches have settled, loading eventually becomes
\* false, whatever the outcome (both succeed, an envelope with success false,
\* a network error, a body that is not JSON); and once loading is false it
\* never becomes true again.
C19_LoadingEnds ==
    /\ (Settled(citiesRes) /\ Settled(hotelsRes)) ~> ~loading
    /\ [][~loading => ~loading']_vars

\* C19 witness: both fetches have settled, the cities fetch with a network
\* error and the hotels fetch with a response, and the load has ended on the
\* catch path with loading false
C19_Witness ==
    /\ pc = "done"
    /\ ~loading
    /\ citiesRes.state = "rejected"
    /\ hotelsRes.state = "fulfilled"
    /\ error = "Error connecting to server"

\* C20: any store failure while serving a listing, whether the query call
\* returns an error or the iteration over the rows ends with a store error,
\* yields the failure envelope with status 500; a response with success true
\* is produced only when the store delivered the complete result set.
C20_StoreFailureIs500 ==
    \A r \in Requests : \A k \in 1..Len(served[r].out) :
        /\ (served[r].q.err # "" \/ served[r].q.iterErr) =>
            (served[r].out[k].status = 500 /\ ~served[r].out[k].body.success)
        /\ served[r].out[k].body.success =>
            (~served[r].q.iterErr /\ served[r].q.n = Len(served[r].q.rows))

\* C21: after any sequence of client events, once the pending filter effect
\* has run, filteredData is the result of the filter applied to the current
\* snapshots and searchParams; and the direct assignment of the table-switch
\* handler already agrees with that result for the new searchParams.
C21_FilteredIsFilterResult ==
    /\ [](~effectPending => filteredData = filterData(searchParams, cities, hotels))
    /\ [][searchParams'.table # searchParams.table =>
            filteredData' = filterData(searchParams', cities', hotels')]_vars

\* C21 witness: after the load, a switch to cities and a query, the filter
\* effect has run and shows some cities but not all
C21_Witness ==
    /\ pc = "done"
    /\ ~effectPending
    /\ searchParams.table = "cities"
    /\ ~IsBlank(searchParams.query)
    /\ filteredData # <<>>
    /\ Len(filteredData) < Len(cities)

\* C22: the selected field is always among the options of the selected table
\* (so never city, capacity or price while the table is cities), and a change
\* of field or query or a clear never changes the table.
C22_FieldAmongOptions ==
    /\ [](searchParams.field \in getFieldOptions(searchParams.table))
    /\ [](searchParams.table = "cities" => searchParams.field \notin {"city", "capacity", "price"})
    /\ [][(handleFieldChange \/ handleQueryChange \/ handleClear) =>
            searchParams'.table = searchParams.table]_vars

\* C22 witness: price was selected for hotels, and after a switch to cities
\* the field is a cities option; then id was selected and a query typed
C22_Witness ==
    /\ pc = "done"
    /\ searchParams.table = "cities"
    /\ searchParams.field = "id"
    /\ searchParams.query # Empty
    /\ ~effectPending

====
